---- MODULE Spec2Model ----
(***************************************************************************)
(* Model of the chat widget: the session client and response normalizer    *)
(* of frontend/src/api/api.js and the chat state of                        *)
(* frontend/src/components/ChatWindow.js.                                  *)
(*                                                                         *)
(* JavaScript values are tagged records, each type with a field of its    *)
(* own for what it holds.  A string is a sequence of non-empty pieces (its *)
(* concatenation is the text), so the empty string is the empty sequence   *)
(* and `a + b` is \o.  A property read of a missing field yields Undef, as *)
(* in JavaScript.  A function that may throw returns Return(v) or          *)
(* Throw(message).  The pictographs that precede some labels in the source *)
(* ("Estimated Time", "Tools needed", ...) are left out of the pieces.      *)
(***************************************************************************)
EXTENDS Integers, Sequences, FiniteSets, TLC

VARIABLES
  messages,          \* ChatWindow: the messages state
  input,             \* ChatWindow: the input state (a sequence of characters)
  isLoading,         \* ChatWindow: the isLoading state
  currentSessionId,  \* api.js: the module-level session id
  calls,             \* getAIMessage calls suspended at an await
  settled,           \* the most recently settled getAIMessage call and its outcome
  lastSupplied,      \* history: id of the latest response that supplied one since the last reset
  resetInEffect,     \* history: resetSession was called and no request was built since
  subject,           \* normalizer: the payload under normalization
  outcome            \* normalizer: what formatBackendResponse(subject) did

vars == <<messages, input, isLoading, currentSessionId, calls, settled,
          lastSupplied, resetInEffect, subject, outcome>>

\* ------------------------------------------------------------ bounds
\* longest list (products, steps, causes, solutions) in a payload
MaxItems == 2

\* ------------------------------------------------------------ JS values
Undef == [t |-> "undefined"]
Null == [t |-> "null"]
Str(s) == [t |-> "string", s |-> s]
Num(n) == [t |-> "number", n |-> n]
Bool(b) == [t |-> "boolean", b |-> b]
Arr(a) == [t |-> "array", a |-> a]
Obj(r) == [t |-> "object", o |-> r]

Lit(s) == Str(<<s>>)

Return(v) == [threw |-> FALSE, v |-> v]
Throw(m) == [threw |-> TRUE, message |-> m]

\* x.f for a value x that is neither undefined nor null
Get(x, f) == IF x.t = "object" /\ f \in DOMAIN x.o THEN x.o[f] ELSE Undef

\* x.f throws a TypeError when x is undefined or null
Nullish(x) == x.t \in {"undefined", "null"}
CannotRead(x, f) ==
  <<"Cannot read properties of ", x.t, " (reading '", f, "')">>

\* ToBoolean
Truthy(x) ==
  CASE x.t = "undefined" -> FALSE
    [] x.t = "null" -> FALSE
    [] x.t = "string" -> Len(x.s) > 0
    [] x.t = "number" -> x.n # 0
    [] x.t = "boolean" -> x.b
    [] OTHER -> TRUE

\* x.length of an array or a string (a string of pieces has length 0 exactly
\* when it has no piece)
length(x) == IF x.t = "array" THEN Len(x.a) ELSE Len(x.s)

\* x.length === 0 (only an empty array or an empty string has length 0)
LengthIsZero(x) == x.t \in {"array", "string"} /\ length(x) = 0

\* x.length > 0 (undefined > 0 is false)
LengthPositive(x) == x.t \in {"array", "string"} /\ length(x) > 0

RECURSIVE join(_, _)
\* ToString of a value, as template interpolation and string + do it
ToStr(x) ==
  CASE x.t = "undefined" -> <<"undefined">>
    [] x.t = "null" -> <<"null">>
    [] x.t = "string" -> x.s
    [] x.t = "number" -> <<ToString(x.n)>>
    [] x.t = "boolean" -> <<IF x.b THEN "true" ELSE "false">>
    [] x.t = "array" -> join(x.a, ",")
    [] OTHER -> <<"[object Object]">>

\* Array.prototype.join: null and undefined elements give the empty string
join(a, sep) ==
  IF Len(a) = 0 THEN <<>>
  ELSE LET item == IF Nullish(a[1]) THEN <<>> ELSE ToStr(a[1])
       IN IF Len(a) = 1 THEN item ELSE item \o <<sep>> \o join(Tail(a), sep)

\* ------------------------------------------------------------ normalizer

\* the body of the forEach callback of formatProductResults (index is 1-based)
productBlock(product, index) ==
  <<"**", ToString(index), ". ">> \o ToStr(Get(product, "name")) \o <<"**\n">>
  \o <<"   ID: ">> \o ToStr(Get(product, "id")) \o <<"\n">>
  \o <<"   Price: $">> \o ToStr(Get(product, "price")) \o <<"\n">>
  \o <<"   Description: ">> \o ToStr(Get(product, "description")) \o <<"\n">>
  \o (IF Truthy(Get(product, "compatibility"))
         /\ LengthPositive(Get(product, "compatibility"))
      THEN <<"   Compatible with: ">>
           \o join(Get(product, "compatibility").a, ", ") \o <<"\n">>
      ELSE <<>>)
  \o <<"   In Stock: ", IF Truthy(Get(product, "inStock")) THEN "Yes" ELSE "No", "\n\n">>

\* whether the callback throws on this product
productThrows(product) ==
  \/ Nullish(product)
  \/ /\ Truthy(Get(product, "compatibility"))
     /\ LengthPositive(Get(product, "compatibility"))
     /\ Get(product, "compatibility").t # "array"

RECURSIVE productsForEach(_, _, _)
productsForEach(products, index, formatted) ==
  IF index > Len(products) THEN Return(Str(formatted))
  ELSE IF Nullish(products[index])
  THEN Throw(CannotRead(products[index], "name"))
  ELSE IF productThrows(products[index])
  THEN Throw(<<"product.compatibility.join is not a function">>)
  ELSE productsForEach(products, index + 1,
                       formatted \o productBlock(products[index], index))

\* formatProductResults with a loop that starts at the second product
formatProductResultsSkipsFirst(response) ==
  LET content == Get(response, "content")
      data == Get(response, "data")
      products == Get(data, "products")
  IN IF ~Truthy(data) \/ ~Truthy(products) \/ LengthIsZero(products)
     THEN Return(IF Truthy(content) THEN content ELSE Lit("No products found"))
     ELSE IF products.t # "array"
     THEN Throw(<<"data.products.forEach is not a function">>)
     ELSE productsForEach(products.a, 2, ToStr(content) \o <<"\n\n">>)

formatProductResults(response) ==
  LET content == Get(response, "content")
      data == Get(response, "data")
      products == Get(data, "products")
  IN IF ~Truthy(data) \/ ~Truthy(products) \/ LengthIsZero(products)
     THEN Return(IF Truthy(content) THEN content ELSE Lit("No products found"))
     ELSE IF products.t # "array"
     THEN Throw(<<"data.products.forEach is not a function">>)
     ELSE productsForEach(products.a, 1, ToStr(content) \o <<"\n\n">>)

RECURSIVE bullets(_)
\* the inner forEach over tips / warnings
bullets(items) ==
  IF Len(items) = 0 THEN <<>>
  ELSE <<"      - ">> \o ToStr(items[1]) \o <<"\n">> \o bullets(Tail(items))

HasItems(x) == Truthy(x) /\ LengthPositive(x)

stepBlock(step) ==
  <<"**Step ">> \o ToStr(Get(step, "step")) \o <<": ">>
  \o ToStr(Get(step, "instruction")) \o <<"**\n">>
  \o (IF HasItems(Get(step, "tools"))
      THEN <<"   Tools needed: ">> \o join(Get(step, "tools").a, ", ") \o <<"\n">>
      ELSE <<>>)
  \o (IF HasItems(Get(step, "tips"))
      THEN <<"   Tips:\n">> \o bullets(Get(step, "tips").a)
      ELSE <<>>)
  \o (IF HasItems(Get(step, "warnings"))
      THEN <<"   Warnings:\n">> \o bullets(Get(step, "warnings").a)
      ELSE <<>>)
  \o <<"\n">>

stepThrows(step) ==
  \/ Nullish(step)
  \/ \E f \in {"tools", "tips", "warnings"} :
        HasItems(Get(step, f)) /\ Get(step, f).t # "array"

RECURSIVE stepsForEach(_, _, _)
stepsForEach(steps, index, formatted) ==
  IF index > Len(steps) THEN Return(Str(formatted))
  ELSE IF Nullish(steps[index])
  THEN Throw(CannotRead(steps[index], "step"))
  ELSE IF stepThrows(steps[index])
  THEN Throw(<<"step list is not an array">>)
  ELSE stepsForEach(steps, index + 1, formatted \o stepBlock(steps[index]))

formatInstallationGuide(response) ==
  LET content == Get(response, "content")
      data == Get(response, "data")
      steps == Get(data, "steps")
  IN IF ~Truthy(data) \/ ~Truthy(steps) \/ LengthIsZero(steps)
     THEN Return(IF Truthy(content) THEN content
                 ELSE Lit("No installation steps available"))
     ELSE IF steps.t # "array"
     THEN Throw(<<"data.steps.forEach is not a function">>)
     ELSE stepsForEach(steps.a, 1,
            ToStr(content) \o <<"\n\n">>
            \o <<"Estimated Time: ">> \o ToStr(Get(data, "estimatedTime"))
            \o <<" minutes\n">>
            \o <<"Difficulty: ">> \o ToStr(Get(data, "difficulty")) \o <<"\n\n">>)

causeBlock(cause, index) ==
  <<ToString(index), ". **">> \o ToStr(Get(cause, "cause")) \o <<"** (">>
  \o ToStr(Get(cause, "probability")) \o <<" probability)\n">>
  \o <<"   Description: ">> \o ToStr(Get(cause, "description")) \o <<"\n">>
  \o <<"   Fix: ">> \o ToStr(Get(cause, "fix")) \o <<"\n\n">>

RECURSIVE causesForEach(_, _, _)
causesForEach(causes, index, formatted) ==
  IF index > Len(causes) THEN Return(Str(formatted))
  ELSE IF Nullish(causes[index])
  THEN Throw(CannotRead(causes[index], "cause"))
  ELSE causesForEach(causes, index + 1,
                     formatted \o causeBlock(causes[index], index))

RECURSIVE numbered(_, _)
\* the inner forEach over solution.steps
numbered(items, stepIndex) ==
  IF stepIndex > Len(items) THEN <<>>
  ELSE <<"   ", ToString(stepIndex), ". ">> \o ToStr(items[stepIndex]) \o <<"\n">>
       \o numbered(items, stepIndex + 1)

solutionBlock(solution, index) ==
  <<"**Solution ", ToString(index), ": ">> \o ToStr(Get(solution, "title"))
  \o <<"**\n">>
  \o (IF HasItems(Get(solution, "steps"))
      THEN numbered(Get(solution, "steps").a, 1)
      ELSE <<>>)
  \o <<"   Estimated Time: ">> \o ToStr(Get(solution, "estimatedTime"))
  \o <<" minutes\n">>
  \o (IF HasItems(Get(solution, "recommendedParts"))
      THEN <<"   Recommended Parts: ">>
           \o join(Get(solution, "recommendedParts").a, ", ") \o <<"\n">>
      ELSE <<>>)
  \o <<"\n">>

solutionThrows(solution) ==
  \/ Nullish(solution)
  \/ \E f \in {"steps", "recommendedParts"} :
        HasItems(Get(solution, f)) /\ Get(solution, f).t # "array"

RECURSIVE solutionsForEach(_, _, _)
solutionsForEach(solutions, index, formatted) ==
  IF index > Len(solutions) THEN Return(Str(formatted))
  ELSE IF Nullish(solutions[index])
  THEN Throw(CannotRead(solutions[index], "title"))
  ELSE IF solutionThrows(solutions[index])
  THEN Throw(<<"solution list is not an array">>)
  ELSE solutionsForEach(solutions, index + 1,
                        formatted \o solutionBlock(solutions[index], index))

formatTroubleshooting(response) ==
  LET content == Get(response, "content")
      data == Get(response, "data")
      causes == Get(data, "possibleCauses")
      solutions == Get(data, "suggestedSolutions")
      start == ToStr(content) \o <<"\n\n">>
      afterCauses ==
        IF Truthy(data) /\ HasItems(causes)
        THEN IF causes.t # "array"
             THEN Throw(<<"data.possibleCauses.forEach is not a function">>)
             ELSE causesForEach(causes.a, 1, start \o <<"**Possible Causes:**\n\n">>)
        ELSE Return(Str(start))
  IN IF afterCauses.threw THEN afterCauses
     ELSE IF Truthy(data) /\ HasItems(solutions)
     THEN IF solutions.t # "array"
          THEN Throw(<<"data.suggestedSolutions.forEach is not a function">>)
          ELSE solutionsForEach(solutions.a, 1,
                 afterCauses.v.s \o <<"**Suggested Solutions:**\n\n">>)
     ELSE afterCauses

GenericFailure == Lit("An error occurred")

Message(content) == [role |-> "assistant", content |-> content]

\* failureContent without the `|| "An error occurred"` fallback
failureContentNoFallback(data) ==
  LET error == Get(data, "error")
  IN IF Nullish(error) THEN Undef ELSE Get(error, "message")

\* data.error?.message || "An error occurred"
failureContent(data) ==
  LET error == Get(data, "error")
      message == IF Nullish(error) THEN Undef ELSE Get(error, "message")
  IN IF Truthy(message) THEN message ELSE GenericFailure

\* the switch on response.type
dispatch(response) ==
  LET type == Get(response, "type") IN
  CASE type = Lit("text") -> Return(Get(response, "content"))
    [] type = Lit("product_results") -> formatProductResults(response)
    [] type = Lit("installation_guide") -> formatInstallationGuide(response)
    [] type = Lit("troubleshooting") -> formatTroubleshooting(response)
    [] type = Lit("out_of_scope") -> Return(Get(response, "content"))
    [] type = Lit("error") ->
         Return(Str(<<"Error: ">> \o ToStr(Get(response, "content"))))
    [] OTHER -> Return(Get(response, "content"))

formatBackendResponse(data) ==
  IF ~Truthy(Get(data, "success"))
  THEN Return(Message(failureContent(data)))
  ELSE LET response == Get(data, "response") IN
       IF Nullish(response) THEN Throw(CannotRead(response, "type"))
       ELSE LET content == dispatch(response) IN
            IF content.threw THEN content ELSE Return(Message(content.v))

\* ------------------------------------------------------------ payloads

\* all sequences over S of length at most n
SeqsUpTo(S, n) == UNION {[1..k -> S] : k \in 0..n}

Contents == {Undef, Str(<<>>), Lit("Here you go")}

Widget ==
  Obj([name |-> Lit("Widget"), id |-> Lit("W1"), price |-> Num(10),
       description |-> Lit("A widget"),
       compatibility |-> Arr(<<Lit("M1"), Lit("M2")>>), inStock |-> Bool(TRUE)])
Gasket ==
  Obj([name |-> Lit("Gasket"), id |-> Lit("G2"), description |-> Lit("A gasket")])
Filter ==
  Obj([name |-> Lit("Filter"), id |-> Lit("F3"), price |-> Num(25),
       description |-> Lit("A filter"),
       compatibility |-> Arr(<<>>), inStock |-> Bool(FALSE)])

ProductValues == {Widget, Gasket, Filter, Null}

ProductData ==
  {Undef, Null, Obj([total |-> Num(0)]), Obj([products |-> Num(5)])}
  \cup {Obj([products |-> Arr(l)]) : l \in SeqsUpTo(ProductValues, MaxItems)}

Unplug ==
  Obj([step |-> Num(1), instruction |-> Lit("Unplug the appliance"),
       tools |-> Arr(<<Lit("wrench"), Lit("pliers")>>),
       tips |-> Arr(<<Lit("take a photo")>>),
       warnings |-> Arr(<<Lit("hot surface")>>)])
Remove ==
  Obj([step |-> Num(2), instruction |-> Lit("Remove the panel")])
Refit ==
  Obj([step |-> Num(3), instruction |-> Lit("Refit the panel"),
       tools |-> Arr(<<>>), tips |-> Arr(<<>>), warnings |-> Arr(<<>>)])
Tighten ==
  Obj([step |-> Num(4), instruction |-> Lit("Tighten the screws"),
       tools |-> Lit("screwdriver")])

StepValues == {Unplug, Remove, Refit, Tighten}

InstallData ==
  {Undef}
  \cup {Obj([estimatedTime |-> e, difficulty |-> d, steps |-> s]) :
          e \in {Undef, Num(30)}, d \in {Undef, Lit("Easy")},
          s \in {Undef} \cup {Arr(l) : l \in SeqsUpTo(StepValues, MaxItems)}}

Clogged ==
  Obj([cause |-> Lit("Clogged filter"), probability |-> Lit("high"),
       description |-> Lit("The filter is blocked"), fix |-> Lit("Clean it")])
Worn ==
  Obj([cause |-> Lit("Worn seal"), description |-> Lit("The seal leaks"),
       fix |-> Lit("Replace it")])

CauseValues == {Clogged, Worn}

Replace ==
  Obj([title |-> Lit("Replace the seal"),
       steps |-> Arr(<<Lit("open"), Lit("swap")>>), estimatedTime |-> Num(15),
       recommendedParts |-> Arr(<<Lit("P1"), Lit("P2")>>)])
Reset ==
  Obj([title |-> Lit("Reset the unit")])
Clean ==
  Obj([title |-> Lit("Clean the filter"), steps |-> Arr(<<>>),
       estimatedTime |-> Num(5), recommendedParts |-> Arr(<<>>)])

SolutionValues == {Replace, Reset, Clean}

TroubleData ==
  {Undef}
  \cup {Obj([possibleCauses |-> c, suggestedSolutions |-> s]) :
          c \in {Undef} \cup {Arr(l) : l \in SeqsUpTo(CauseValues, MaxItems)},
          s \in {Undef} \cup {Arr(l) : l \in SeqsUpTo(SolutionValues, MaxItems)}}

Response(type, content, d) == Obj([type |-> type, content |-> content, data |-> d])

Responses ==
  {Response(type, c, Undef) :
     type \in {Lit("text"), Lit("out_of_scope"), Lit("error"), Lit("mystery"), Undef},
     c \in Contents}
  \cup {Response(Lit("product_results"), c, d) : c \in Contents, d \in ProductData}
  \cup {Response(Lit("installation_guide"), c, d) : c \in Contents, d \in InstallData}
  \cup {Response(Lit("troubleshooting"), c, d) : c \in Contents, d \in TroubleData}

Errors ==
  {Undef, Null, Obj([code |-> Num(7)]), Obj([message |-> Str(<<>>)]),
   Obj([message |-> Lit("bad query")])}

Body(success, error, response, sessionId) ==
  Obj([success |-> success, error |-> error, response |-> response,
       sessionId |-> sessionId])

\* the payloads the normalizer is applied to
Payloads ==
  {Body(Bool(TRUE), Undef, r, Undef) : r \in Responses \cup {Undef, Null}}
  \cup {Body(s, e, r, Undef) :
          s \in {Bool(FALSE), Undef, Null, Num(0)}, e \in Errors,
          r \in {Undef, Response(Lit("text"), Lit("Here you go"), Undef),
                 Response(Lit("product_results"), Undef,
                          Obj([products |-> Arr(<<Null>>)]))}}

\* ------------------------------------------------------------ session client

\* most user turns (getAIMessage calls started) in one run
MaxTurns == 2
\* most getAIMessage calls a direct caller of api.js keeps outstanding
MaxCalls == 2

\* what fetch(BACKEND_URL, ...) settles to
FetchOutcomes ==
  {[kind |-> "rejected", ok |-> FALSE, status |-> 0],
   [kind |-> "response", ok |-> TRUE, status |-> 200],
   [kind |-> "response", ok |-> FALSE, status |-> 500]}

Unparsable == [t |-> "unparsable"]

SessionIds == {Undef, Str(<<>>), Lit("s1"), Lit("s2")}

\* what response.json() settles to: a rejection, or the parsed body
JsonOutcomes ==
  {Unparsable, Null}
  \cup {Body(Bool(TRUE), Undef, Response(Lit("text"), Lit("Here you go"), Undef), sid) :
          sid \in SessionIds}
  \cup {Body(Bool(FALSE), Obj([message |-> Lit("bad query")]), Undef, Lit("s1")),
        Body(Bool(FALSE), Undef, Undef, Undef),
        Body(Bool(TRUE), Undef, Undef, Lit("s2")),
        Body(Bool(TRUE), Undef, Response(Lit("text"), Undef, Undef), Undef),
        Body(Bool(TRUE), Undef, Response(Lit("error"), Lit("Out of stock"), Undef),
             Undef)}

\* the request payload built at call time
payload(userQuery, sessionId) == [message |-> userQuery, sessionId |-> sessionId]

\* new Error(`Backend error: ${response.status}`)
BackendError(status) == <<"Backend error: ", ToString(status)>>

\* the steps from the fetch result to the first await after it
afterFetch(r) ==
  IF r.kind = "rejected" THEN Throw(<<"Failed to fetch">>)
  ELSE IF ~r.ok THEN Throw(BackendError(r.status))
  ELSE Return(r)

\* saveSessionId without the `if`: the field is stored whatever it is
saveSessionIdAlways(body, stored) == Get(body, "sessionId")

\* step 5: the session id after a body was parsed
saveSessionId(body, stored) ==
  IF Truthy(Get(body, "sessionId")) THEN Get(body, "sessionId") ELSE stored

\* the steps from the parsed body to the return
afterJson(body) ==
  IF body = Unparsable THEN Throw(<<"Unexpected token < in JSON at position 0">>)
  ELSE IF Nullish(body) THEN Throw(CannotRead(body, "sessionId"))
  ELSE formatBackendResponse(body)

\* the catch block
caught(message) ==
  Return(Message(Str(<<"Sorry, I encountered an error: ">> \o message
                     \o <<". Please make sure the backend is running on http://localhost:5000">>)))

\* boundary without the catch block: a thrown error leaves getAIMessage
boundaryRethrows(result) == result

\* what the promise of getAIMessage settles to: try { ... } catch
boundary(result) == IF result.threw THEN caught(result.message) ELSE result

resetSession ==
  /\ currentSessionId' = Null
  /\ lastSupplied' = Null
  /\ resetInEffect' = TRUE
  /\ UNCHANGED <<messages, input, isLoading, calls, settled, subject, outcome>>

\* ------------------------------------------------------------ chat window

defaultMessage == <<Message(Lit("Hi, how can I help you today?"))>>

Whitespace == {" ", "\t", "\n"}

RECURSIVE trimStart(_)
trimStart(s) ==
  IF Len(s) > 0 /\ Head(s) \in Whitespace THEN trimStart(Tail(s)) ELSE s

RECURSIVE trimEnd(_)
trimEnd(s) ==
  IF Len(s) > 0 /\ s[Len(s)] \in Whitespace
  THEN trimEnd(SubSeq(s, 1, Len(s) - 1))
  ELSE s

\* String.prototype.trim
trim(s) == trimEnd(trimStart(s))

\* what the user can put into the input field
InputTexts == {<<>>, <<" ">>, <<" ", "a", " ">>, <<"b">>}

\* the disabled prop of the input element
inputDisabled == isLoading

\* the disabled prop of the send button
sendDisabled == isLoading \/ trim(input) = <<>>

\* the condition of handleKeyPress
sendsOnKey(key, shiftKey) == key = "Enter" /\ ~shiftKey /\ ~isLoading

UserTurns == Cardinality({k \in 1..Len(messages) : messages[k].role = "user"})

\* the synchronous part of getAIMessage: build the payload, start the fetch
startCall(caller, userQuery) ==
  /\ calls' = Append(calls, [caller |-> caller, pc |-> "fetch",
                             payload |-> payload(userQuery, currentSessionId),
                             stored |-> currentSessionId])
  /\ resetInEffect' = FALSE

\* handleSend that sends and shows the input as typed, untrimmed
handleSendUntrimmed ==
  LET userMessage == input IN
  IF trim(input) = <<>>
  THEN UNCHANGED vars
  ELSE /\ messages' = Append(messages, [role |-> "user", content |-> Str(userMessage)])
       /\ input' = <<>>
       /\ isLoading' = TRUE
       /\ startCall("ui", userMessage)
       /\ UNCHANGED <<currentSessionId, settled, lastSupplied, subject, outcome>>

\* handleSend without setIsLoading(true)
handleSendNoLoading ==
  LET userMessage == trim(input) IN
  IF userMessage = <<>>
  THEN UNCHANGED vars
  ELSE /\ messages' = Append(messages, [role |-> "user", content |-> Str(userMessage)])
       /\ input' = <<>>
       /\ isLoading' = isLoading
       /\ startCall("ui", userMessage)
       /\ UNCHANGED <<currentSessionId, settled, lastSupplied, subject, outcome>>

\* handleSend up to its await
handleSend ==
  LET userMessage == trim(input) IN
  IF userMessage = <<>>
  THEN UNCHANGED vars
  ELSE /\ messages' = Append(messages, [role |-> "user", content |-> Str(userMessage)])
       /\ input' = <<>>
       /\ isLoading' = TRUE
       /\ startCall("ui", userMessage)
       /\ UNCHANGED <<currentSessionId, settled, lastSupplied, subject, outcome>>

\* handleSend after its await: try / catch / finally
resume(result) ==
  /\ messages' = Append(messages,
                   IF result.threw
                   THEN Message(Lit("Sorry, something went wrong. Please try again."))
                   ELSE result.v)
  /\ isLoading' = FALSE

\* React commits the state updates of an event handler before the next
\* event is dispatched, so every handler below reads the state as it is.

\* onChange of the input element
Type(text) ==
  /\ ~inputDisabled
  /\ input' = text
  /\ UNCHANGED <<messages, isLoading, currentSessionId, calls, settled,
                 lastSupplied, resetInEffect, subject, outcome>>

\* onClick of the send button
ClickSend ==
  /\ ~sendDisabled
  /\ UserTurns < MaxTurns
  /\ handleSend

\* onKeyPress of the input element
PressKey(key, shiftKey) ==
  /\ ~inputDisabled
  /\ UserTurns < MaxTurns
  /\ IF sendsOnKey(key, shiftKey) THEN handleSend ELSE UNCHANGED vars

\* ------------------------------------------------------------ completions

Without(q, i) == SubSeq(q, 1, i - 1) \o SubSeq(q, i + 1, Len(q))

\* history: the body violates the wire shape (an object; with success true,
\* a response object whose content is a string)
Malformed(body) ==
  \/ body.t # "object"
  \/ /\ Truthy(Get(body, "success"))
     /\ \/ Get(body, "response").t # "object"
        \/ Get(Get(body, "response"), "content").t # "string"

\* history: the failure class of a settled call
Cause(r, body) ==
  IF r.kind = "rejected" THEN "network"
  ELSE IF ~r.ok THEN "status"
  ELSE IF body = Unparsable THEN "parse"
  ELSE IF Malformed(body) THEN "malformed"
  ELSE IF ~Truthy(Get(body, "success"))
          \/ Get(Get(body, "response"), "type") = Lit("error")
  THEN "application"
  ELSE "ok"

NoBody == [t |-> "none"]

\* getAIMessage returns (or throws) and its caller resumes
settle(i, r, body, raw) ==
  /\ calls' = Without(calls, i)
  /\ settled' = [call |-> calls[i], fetch |-> r, body |-> body,
                 cause |-> Cause(r, body), raw |-> raw, result |-> boundary(raw)]
  /\ IF calls[i].caller = "ui"
     THEN resume(boundary(raw))
     ELSE UNCHANGED <<messages, isLoading>>

FetchSettles(i, r) ==
  /\ calls[i].pc = "fetch"
  /\ IF afterFetch(r).threw
     THEN settle(i, r, NoBody, afterFetch(r))
     ELSE /\ calls' = [calls EXCEPT ![i].pc = "json"]
          /\ UNCHANGED <<messages, isLoading, settled>>
  /\ UNCHANGED <<input, currentSessionId, lastSupplied, resetInEffect,
                 subject, outcome>>

\* history: the body carries a session id (a non-empty string)
SuppliesId(body) ==
  /\ body.t = "object"
  /\ Get(body, "sessionId").t = "string"
  /\ Get(body, "sessionId").s # <<>>

JsonSettles(i, body) ==
  /\ calls[i].pc = "json"
  /\ currentSessionId' =
       IF body = Unparsable \/ Nullish(body) THEN currentSessionId
       ELSE saveSessionId(body, currentSessionId)
  /\ lastSupplied' = IF SuppliesId(body) THEN Get(body, "sessionId") ELSE lastSupplied
  /\ settle(i, [kind |-> "response", ok |-> TRUE, status |-> 200], body,
            afterJson(body))
  /\ UNCHANGED <<input, resetInEffect, subject, outcome>>

\* a direct caller of api.js
ApiCall(userQuery) ==
  /\ Len(calls) < MaxCalls
  /\ startCall("api", userQuery)
  /\ UNCHANGED <<messages, input, isLoading, currentSessionId, settled,
                 lastSupplied, subject, outcome>>

NoCall == [cause |-> "none"]

NotRun == [threw |-> FALSE, pending |-> TRUE]

\* ------------------------------------------------------------ specifications

InitState ==
  /\ messages = defaultMessage
  /\ input = <<>>
  /\ isLoading = FALSE
  /\ currentSessionId = Null
  /\ calls = <<>>
  /\ settled = NoCall
  /\ lastSupplied = Null
  /\ resetInEffect = FALSE

\* the chat window driving the session client
Init ==
  /\ InitState
  /\ subject = Null
  /\ outcome = NotRun

Next ==
  \/ \E text \in InputTexts : Type(text)
  \/ ClickSend
  \/ \E key \in {"Enter", "a"}, shiftKey \in BOOLEAN : PressKey(key, shiftKey)
  \/ \E i \in 1..Len(calls), r \in FetchOutcomes : FetchSettles(i, r)
  \/ \E i \in 1..Len(calls), body \in JsonOutcomes : JsonSettles(i, body)

Spec == Init /\ [][Next]_vars

\* api.js driven directly: calls may overlap and resetSession may be called
NextApi ==
  \/ \E userQuery \in {<<"a">>, <<"b">>} : ApiCall(userQuery)
  \/ resetSession
  \/ \E i \in 1..Len(calls), r \in FetchOutcomes : FetchSettles(i, r)
  \/ \E i \in 1..Len(calls), body \in JsonOutcomes : JsonSettles(i, body)

SpecApi == Init /\ [][NextApi]_vars

\* the normalizer applied to one payload
InitNormalizer ==
  /\ InitState
  /\ subject \in Payloads
  /\ outcome = NotRun

Normalize ==
  /\ outcome = NotRun
  /\ outcome' = formatBackendResponse(subject)
  /\ UNCHANGED <<messages, input, isLoading, currentSessionId, calls, settled,
                 lastSupplied, resetInEffect, subject>>

NextNormalizer == Normalize

SpecNormalizer == InitNormalizer /\ [][NextNormalizer]_vars

\* ------------------------------------------------------------ claims

Range(q) == {q[k] : k \in 1..Len(q)}

\* sub occurs in s as a contiguous run of pieces
Contains(q, sub) ==
  \E k \in 0..(Len(q) - Len(sub)) : SubSeq(q, k + 1, k + Len(sub)) = sub

NonEmptyString(x) == x.t = "string" /\ x.s # <<>>

\* the reason a settled call failed for, as the network outcome gives it
Reason ==
  CASE settled.cause = "network" -> <<"Failed to fetch">>
    [] settled.cause = "status" -> <<ToString(settled.fetch.status)>>
    [] settled.cause = "parse" -> <<"Unexpected token < in JSON at position 0">>
    [] OTHER -> <<"Cannot read properties of ">>

\* the network call failed, or the parsed body made the formatting throw
Raised == settled.cause # "none" /\ settled.raw.threw

\* C1: whatever the network call does, the promise of getAIMessage resolves
\* (never rejects) to an assistant message; when the call failed (transport,
\* non-OK status, JSON parse, a body on which formatting throws) its content
\* is the error string containing the failure reason.
C1_NeverRaises ==
  settled.cause # "none" =>
    /\ ~settled.result.threw
    /\ settled.result.v.role = "assistant"
    /\ Raised =>
         /\ NonEmptyString(settled.result.v.content)
         /\ Head(settled.result.v.content.s) = "Sorry, I encountered an error: "
         /\ Contains(settled.result.v.content.s, Reason)

\* a body with success true and no response object made the formatting throw
C1_Witness ==
  /\ Raised
  /\ settled.cause = "malformed"
  /\ settled.body.t = "object"
  /\ ~settled.result.threw

\* C2: in the chat UI at most one backend request is in flight.
C2_OneInFlight == Len(calls) <= 1

\* a second request is in flight after the first one completed
C2_Witness == Len(calls) = 1 /\ isLoading /\ UserTurns = 2 /\ settled.cause # "none"

\* C3: each request carries the session id stored when it was built, and the
\* stored id is absent (initially, after resetSession) or the id of the most
\* recent parsed response that supplied one since the last reset; failures
\* and responses without an id leave it unchanged.
C3_SessionCarry ==
  /\ \A i \in 1..Len(calls) : calls[i].payload.sessionId = calls[i].stored
  /\ currentSessionId = lastSupplied

\* a call failed after an id was stored, and a later request carries that id
C3_Witness ==
  /\ settled.cause \in {"network", "status", "parse"}
  /\ currentSessionId = Lit("s2")
  /\ \E i \in 1..Len(calls) : calls[i].payload.sessionId = Lit("s2")
  /\ \E i \in 1..Len(calls) : calls[i].payload.sessionId = Lit("s1")

\* C4: no write to the session id is lost or overwritten by a stale write: a
\* resetSession issued while a request is outstanding is still in effect
\* (the stored id is absent) when the next request is built.
C4_ResetStays == resetInEffect => currentSessionId = Null

\* ---- the normalizer's claims (SpecNormalizer)

Ran == outcome # NotRun

Success == Truthy(Get(subject, "success"))
TheResponse == Get(subject, "response")
TheType == Get(TheResponse, "type")
TheContent == Get(TheResponse, "content")
TheData == Get(TheResponse, "data")

\* the text the normalizer produced, as pieces
Output == outcome.v.content.s

\* C5: for every payload with success true and a response object of any type
\* tag, whatever its content and data, formatBackendResponse returns without
\* throwing and the returned content is a non-empty string.
C5_TotalNonEmpty ==
  (Ran /\ Success /\ TheResponse.t = "object") =>
    /\ ~outcome.threw
    /\ NonEmptyString(outcome.v.content)

\* the k-th smallest element of a set of positions
Nth(S, k) == CHOOSE h \in S : Cardinality({g \in S : g < h}) = k - 1

\* where the numbered blocks of a product listing start
Headers(o) == {h \in 1..Len(o) : o[h] = "**" /\ h + 2 <= Len(o) /\ o[h + 2] = ". "}

\* a field of a product is shown at position k when the product has it
Shows(o, k, field) ==
  \/ field.t = "undefined"
  \/ field.t = "string" /\ SubSeq(o, k, k + Len(field.s) - 1) = field.s
  \/ field.t = "number" /\ o[k] = ToString(field.n)

ProductList ==
  IF TheData.t = "object" THEN Get(TheData, "products") ELSE Undef

\* data.products is a non-empty list of products
HasProducts ==
  /\ ProductList.t = "array"
  /\ Len(ProductList.a) > 0
  /\ \A k \in 1..Len(ProductList.a) : ProductList.a[k].t = "object"

\* data.products is absent or empty
NoProducts ==
  \/ TheData.t \in {"undefined", "null"}
  \/ ProductList.t = "undefined"
  \/ ProductList.t = "array" /\ Len(ProductList.a) = 0

\* C7: a product_results payload with n >= 1 products gives content followed
\* by exactly n blocks numbered 1..n in input order, the k-th showing name,
\* id, price and description of the k-th product; with data.products absent
\* or empty it gives content, or "No products found" when content is missing.
C7_ProductListing ==
  (Ran /\ Success /\ TheType = Lit("product_results")) =>
    /\ HasProducts =>
         /\ ~outcome.threw
         /\ outcome.v.content.t = "string"
         /\ Cardinality(Headers(Output)) = Len(ProductList.a)
         /\ TheContent.t = "string" =>
              /\ SubSeq(Output, 1, Len(TheContent.s) + 1) = TheContent.s \o <<"\n\n">>
              /\ Nth(Headers(Output), 1) = Len(TheContent.s) + 2
         /\ \A k \in 1..Len(ProductList.a) :
              LET h == Nth(Headers(Output), k)
                  product == ProductList.a[k]
              IN /\ Output[h + 1] = ToString(k)
                 /\ Shows(Output, h + 3, Get(product, "name"))
                 /\ Output[h + 5] = "   ID: "
                 /\ Shows(Output, h + 6, Get(product, "id"))
                 /\ Output[h + 8] = "   Price: $"
                 /\ Shows(Output, h + 9, Get(product, "price"))
                 /\ Output[h + 11] = "   Description: "
                 /\ Shows(Output, h + 12, Get(product, "description"))
    /\ NoProducts =>
         /\ ~outcome.threw
         /\ outcome.v.content =
              IF NonEmptyString(TheContent) THEN TheContent
              ELSE Lit("No products found")

\* two different products were listed after a content line
C7_Witness ==
  /\ Ran /\ Success /\ TheType = Lit("product_results")
  /\ HasProducts
  /\ Len(ProductList.a) = 2
  /\ ProductList.a[1] = Gasket /\ ProductList.a[2] = Widget
  /\ NonEmptyString(TheContent)
  /\ ~outcome.threw

\* error.message is present
HasMessage ==
  /\ Get(subject, "error").t = "object"
  /\ NonEmptyString(Get(Get(subject, "error"), "message"))

\* C8: for a payload whose success is falsy the normalizer returns
\* error.message when present and the generic failure string otherwise, never
\* an empty string, whatever the response field holds.
C8_FailurePayload ==
  (Ran /\ ~Success) =>
    /\ ~outcome.threw
    /\ outcome.v.role = "assistant"
    /\ NonEmptyString(outcome.v.content)
    /\ outcome.v.content =
         IF HasMessage THEN Get(Get(subject, "error"), "message")
         ELSE Lit("An error occurred")

\* success is absent, there is no error.message, and the response is one the
\* type dispatch would throw on
C8_Witness ==
  /\ Ran /\ ~Success /\ ~HasMessage
  /\ Get(subject, "success") = Undef
  /\ TheType = Lit("product_results")
  /\ outcome.v.content = Lit("An error occurred")

\* a list field: absent or an array
ListOrAbsent(x) == x.t \in {"undefined", "array"}

ListOf(x) == IF x.t = "array" THEN x.a ELSE <<>>

\* every item of the list is an object whose list fields are lists
ItemsOk(list, fields) ==
  /\ ListOrAbsent(list)
  /\ \A k \in 1..Len(ListOf(list)) :
       /\ ListOf(list)[k].t = "object"
       /\ \A f \in fields : ListOrAbsent(Get(ListOf(list)[k], f))

\* the payload is well formed but for optional fields that are missing
Sparse ==
  /\ Success
  /\ NonEmptyString(TheContent)
  /\ TheData.t = "object"
  /\ CASE TheType = Lit("product_results") ->
            ItemsOk(Get(TheData, "products"), {"compatibility"})
       [] TheType = Lit("installation_guide") ->
            ItemsOk(Get(TheData, "steps"), {"tools", "tips", "warnings"})
       [] TheType = Lit("troubleshooting") ->
            /\ ItemsOk(Get(TheData, "possibleCauses"), {})
            /\ ItemsOk(Get(TheData, "suggestedSolutions"), {"steps", "recommendedParts"})
       [] OTHER -> FALSE

Count(o, piece) == Cardinality({k \in 1..Len(o) : o[k] = piece})

\* how many items of the list have the list field present and non-empty
Filled(list, f) ==
  Cardinality({k \in 1..Len(ListOf(list)) : Len(ListOf(Get(ListOf(list)[k], f))) > 0})

\* C9: for product_results, installation_guide and troubleshooting payloads a
\* list field is rendered only when present and non-empty, and a missing
\* optional nested field neither makes the normalizer throw nor puts the
\* text "undefined" into its output.
C9_NoUndefinedText ==
  (Ran /\ Sparse) =>
    /\ ~outcome.threw
    /\ outcome.v.content.t = "string"
    /\ "undefined" \notin Range(Output)
    /\ Count(Output, "   Compatible with: ")
         = Filled(Get(TheData, "products"), "compatibility")
    /\ Count(Output, "   Tools needed: ") = Filled(Get(TheData, "steps"), "tools")
    /\ Count(Output, "   Tips:\n") = Filled(Get(TheData, "steps"), "tips")
    /\ Count(Output, "   Warnings:\n") = Filled(Get(TheData, "steps"), "warnings")
    /\ Count(Output, "   Recommended Parts: ")
         = Filled(Get(TheData, "suggestedSolutions"), "recommendedParts")

\* ---- the chat window's claims (Spec)

IsPrefix(p, q) == Len(p) <= Len(q) /\ SubSeq(q, 1, Len(p)) = p

Last(q) == q[Len(q)]

\* C6: when a send ends in a failure (transport error, non-OK status,
\* malformed response, application error) the loading state is cleared and
\* exactly one assistant message naming the problem is appended, so that a
\* further send is possible.
C6_FailureReported ==
  [][(Len(calls') < Len(calls) /\ settled'.cause # "ok") =>
       /\ ~isLoading'
       /\ ~inputDisabled'
       /\ messages' = Append(messages, Last(messages'))
       /\ Last(messages').role = "assistant"
       /\ NonEmptyString(Last(messages').content)]_vars

\* the part of C6 that holds of every completion, failed or not: loading is
\* cleared, exactly one assistant message is appended, and loading is set
\* exactly while the request is outstanding
C6_LoadingCleared ==
  [][/\ isLoading' <=> Len(calls') = 1
     /\ Len(calls') < Len(calls) =>
          /\ ~isLoading'
          /\ messages' = Append(messages, Last(messages'))
          /\ Last(messages').role = "assistant"]_vars

\* the list is the greeting followed by turns: a user message, then (once
\* the request completed) one assistant message directly after it
C10_Turns ==
  /\ IsPrefix(defaultMessage, messages)
  /\ \A k \in 2..Len(messages) :
       messages[k].role = IF k % 2 = 0 THEN "user" ELSE "assistant"
  /\ Len(messages) % 2 = 0 <=> Len(calls) = 1

\* one step of the list: nothing, or one message appended
C10_Step ==
  /\ IsPrefix(messages, messages')
  /\ Len(messages') <= Len(messages) + 1
  /\ Len(calls') > Len(calls) <=>
       (Len(messages') > Len(messages) /\ Last(messages').role = "user")
  /\ Len(calls') > Len(calls) =>
       /\ trim(input) # <<>>
       /\ Last(messages').content.t = "string"
       /\ Last(messages').content.s # <<>>
       /\ Head(Last(messages').content.s) \notin Whitespace
       /\ Last(Last(messages').content.s) \notin Whitespace
       /\ Contains(input, Last(messages').content.s)
       /\ Last(calls').payload.message = Last(messages').content.s
  /\ Len(calls') < Len(calls) <=>
       (Len(messages') > Len(messages) /\ Last(messages').role = "assistant")

\* C10: the message list is append-only, starts with the default greeting,
\* every accepted send appends one user message carrying the trimmed text
\* followed, once the request completes, by one assistant message directly
\* after it; a send with empty or whitespace-only input appends nothing and
\* issues no request.
C10_AppendOnly == [][C10_Step /\ C10_Turns']_vars

\* two turns completed, the second from an input with surrounding spaces
C10_Witness ==
  /\ Len(messages) = 5
  /\ messages[2].content = Str(<<"b">>)
  /\ messages[4].content = Str(<<"a">>)
  /\ messages[5].role = "assistant"
  /\ ~isLoading

====
